---- MODULE Spec2Model ----
(***************************************************************************)
(* Result resolution of the OpenF1 console tool (src/f1.py):               *)
(* MenuApp.show_results -> ResultsService.finishing_order, with the        *)
(* pandas operations it is made of.                                        *)
(*                                                                         *)
(* A DataFrame is a record [cols, rows]: cols is the set of column names,  *)
(* rows the sequence of rows.  A row is a function from the columns whose  *)
(* cell is not null to the cell's value: a null cell (None / NaN, or a key *)
(* missing from the JSON record) is a column of the frame that is not in   *)
(* the row's DOMAIN.                                                       *)
(*                                                                         *)
(* Input domain: every position record carries driver_number, and a        *)
(* non-null date / lap_number when the feed has that column; position,     *)
(* gap and interval may be null.  Roster records carry all three fields.   *)
(***************************************************************************)
EXTENDS Integers, Sequences, FiniteSets, TLC

VARIABLES pc, pos, drv, reduced, result, exc, printed

vars == <<pc, pos, drv, reduced, result, exc, printed>>

\* ---------------------------------------------------------------- bounds
MaxLen == 2          \* records in one position feed
MaxRoster == 2       \* records in one drivers feed

DriverNumbers == {1, 2}
Positions == {1, 2}
Keys == {1, 2}                      \* values of date / lap_number
GapValues == {"+1.2s"}
IntervalValues == {"+0.5s"}

\* ---------------------------------------------------------------- frames
EmptyRow == [c \in {} |-> c]

\* pd.DataFrame(): no rows, no columns
NoFrame == [cols |-> {}, rows |-> <<>>]

\* pd.DataFrame(records): an empty JSON list gives a frame without columns
DataFrame(cols, records) ==
    IF records = <<>> THEN NoFrame ELSE [cols |-> cols, rows |-> records]

\* DataFrame.empty
empty(df) == Len(df.rows) = 0 \/ df.cols = {}

\* pd.isna(row[c])
isna(row, c) == c \notin DOMAIN row

Max(S) == CHOOSE x \in S : \A y \in S : y <= x

RECURSIVE Concat(_)
Concat(ss) == IF ss = <<>> THEN <<>> ELSE Head(ss) \o Concat(Tail(ss))

\* df[cols]: the rows restricted to the given columns
project(df, cs) ==
    [cols |-> cs,
     rows |-> [i \in 1..Len(df.rows) |->
                 [c \in (DOMAIN df.rows[i]) \cap cs |-> df.rows[i][c]]]]

\* df[df[c].notna()]
notna_filter(df, c) ==
    [df EXCEPT !.rows = SelectSeq(df.rows, LAMBDA r : ~isna(r, c))]

Perms(n) == {p \in [1..n -> 1..n] : \A i, j \in 1..n : i # j => p[i] # p[j]}

\* a sorts strictly before b on column by (nulls last)
Precedes(a, b, by) == ~isna(a, by) /\ (isna(b, by) \/ a[by] < b[by])

\* DataFrame.sort_values(by) with the default kind="quicksort": ascending,
\* nulls last (kept in their order); the sort is not stable, so rows with
\* equal keys come out in any order.
sort_values(df, by) ==
    LET n == Len(df.rows)
        ok(p) == \A i, j \in 1..n : i < j =>
                    /\ ~Precedes(df.rows[p[j]], df.rows[p[i]], by)
                    /\ (isna(df.rows[p[i]], by) /\ isna(df.rows[p[j]], by)
                            => p[i] < p[j])
    IN  {[df EXCEPT !.rows = [i \in 1..n |-> df.rows[p[i]]]] :
            p \in {q \in Perms(n) : ok(q)}}

\* groupby(...).last() off by one: each column holds the cell before the
\* last non-null one of the group (null when the group has no such cell)
groupby_before_last(df, by) ==
    LET rows == df.rows
        keyed == {i \in DOMAIN rows : ~isna(rows[i], by)}
        keys == {rows[i][by] : i \in keyed}
        holders(g, c) == {i \in keyed : rows[i][by] = g /\ ~isna(rows[i], c)}
        earlier(g, c) == holders(g, c) \ {Max(holders(g, c))}
        agg(g) == ("driver_number" :> g) @@
                  [c \in {d \in df.cols : holders(g, d) # {} /\ earlier(g, d) # {}} |->
                      rows[Max(earlier(g, c))][c]]
        nth(i) == CHOOSE g \in keys : Cardinality({h \in keys : h < g}) = i - 1
    IN  [cols |-> df.cols,
         rows |-> [i \in 1..Cardinality(keys) |-> agg(nth(i))]]

\* df.groupby(by, as_index=False).last(): one row per value of by, in
\* ascending order of by; each other column holds the last NON-NULL cell of
\* the group (null when the group has none).
groupby_last(df, by) ==
    LET rows == df.rows
        keyed == {i \in DOMAIN rows : ~isna(rows[i], by)}
        keys == {rows[i][by] : i \in keyed}
        holders(g, c) == {i \in keyed : rows[i][by] = g /\ ~isna(rows[i], c)}
        agg(g) == [c \in {d \in df.cols : holders(g, d) # {}} |->
                      rows[Max(holders(g, c))][c]]
        nth(i) == CHOOSE g \in keys : Cardinality({h \in keys : h < g}) = i - 1
    IN  [cols |-> df.cols,
         rows |-> [i \in 1..Cardinality(keys) |-> agg(nth(i))]]

\* df.drop_duplicates(): keeps the first of the rows equal in every column
drop_duplicates(df) ==
    LET keep == {i \in DOMAIN df.rows : \A j \in 1..(i - 1) : df.rows[j] # df.rows[i]}
        nth(i) == CHOOSE k \in keep : Cardinality({h \in keep : h < k}) = i - 1
    IN  [df EXCEPT !.rows = [i \in 1..Cardinality(keep) |-> df.rows[nth(i)]]]

\* the merge as an inner join: a left row without a match is dropped
merge_inner(left, right, on) ==
    LET matches(l) == SelectSeq(right.rows, LAMBDA r : ~isna(r, on) /\ r[on] = l[on])
        joined(l) == [i \in 1..Len(matches(l)) |-> l @@ matches(l)[i]]
    IN  [cols |-> left.cols \cup right.cols,
         rows |-> Concat([i \in 1..Len(left.rows) |-> joined(left.rows[i])])]

\* left.merge(right, on=on, how="left"): every left row, in the left order,
\* once per matching right row (once with null right columns without a match)
merge(left, right, on) ==
    LET matches(l) == SelectSeq(right.rows, LAMBDA r : ~isna(r, on) /\ r[on] = l[on])
        joined(l) == IF matches(l) = <<>> THEN <<l>>
                     ELSE [i \in 1..Len(matches(l)) |-> l @@ matches(l)[i]]
    IN  [cols |-> left.cols \cup right.cols,
         rows |-> Concat([i \in 1..Len(left.rows) |-> joined(left.rows[i])])]

\* ---------------------------------------------------------------- inputs
\* what the Data Source can answer: OpenF1Client.fetch returns the JSON
\* records as a frame, or pd.DataFrame() on any failure
KeyColumns == {"driver_number", "position"}
Schemas == {{}, {"date", "gap"}, {"lap_number", "interval"},
            {"date", "lap_number"}, {"gap", "interval"}}

Cell(S, c, V, nullable) ==
    IF c \notin S THEN {EmptyRow}
    ELSE {c :> v : v \in V} \cup (IF nullable THEN {EmptyRow} ELSE {})

PositionRecords(S) ==
    {("driver_number" :> d) @@ p @@ t @@ l @@ g @@ iv :
        d \in DriverNumbers,
        p \in Cell(KeyColumns, "position", Positions, TRUE),
        t \in Cell(S, "date", Keys, FALSE),
        l \in Cell(S, "lap_number", Keys, FALSE),
        g \in Cell(S, "gap", GapValues, TRUE),
        iv \in Cell(S, "interval", IntervalValues, TRUE)}

SeqsUpTo(S, n) == UNION {[1..k -> S] : k \in 1..n}

RosterColumns == {"driver_number", "full_name", "team_name"}
DriverRecords ==
    {[driver_number |-> 1, full_name |-> "A", team_name |-> "TeamA"],
     [driver_number |-> 1, full_name |-> "A", team_name |-> "TeamB"],
     [driver_number |-> 2, full_name |-> "B", team_name |-> "TeamB"]}

DriversFeeds ==
    {NoFrame} \cup {DataFrame(RosterColumns, rs) : rs \in SeqsUpTo(DriverRecords, MaxRoster)}

\* ---------------------------------------------------------------- services
\* DriversService.list_by_session on the fetched frame df
list_by_session(df) ==
    IF empty(df) THEN {df}
    ELSE sort_values(drop_duplicates(project(df, RosterColumns)), "driver_number")

\* every frame list_by_session can return on the drivers feeds
Rosters == UNION {list_by_session(raw) : raw \in DriversFeeds}

\* the column the feed is put in temporal order by ("None": left as it came)
ordering_key(df) ==
    IF "date" \in df.cols THEN "date"
    ELSE IF "lap_number" \in df.cols THEN "lap_number"
    ELSE "None"

\* finishing_order, from the null filter to the per-driver last row
position_reducer(df) ==
    LET f == notna_filter(df, "position")
        k == ordering_key(f)
        sorted == IF k = "None" THEN {f} ELSE sort_values(f, k)
    IN  {groupby_last(s, "driver_number") : s \in sorted}

\* pos.sort_values("position") left undone: the rows stay in groupby order
finishing_sort_skipped(df) == {df}

\* pos.sort_values("position")
finishing_sort(df) == sort_values(df, "position")

gap_col(df) ==
    IF "gap" \in df.cols THEN "gap"
    ELSE IF "interval" \in df.cols THEN "interval"
    ELSE "None"

\* format_gap with the null test placed before the leader test
format_gap_null_first(row, gc) ==
    IF gc = "None" \/ isna(row, gc) THEN "N/A"
    ELSE IF ~isna(row, "position") /\ row["position"] = 1 THEN "Leader"
    ELSE row[gc]

format_gap(row, gc) ==
    IF ~isna(row, "position") /\ row["position"] = 1 THEN "Leader"
    ELSE IF gc = "None" \/ isna(row, gc) THEN "N/A"
    ELSE row[gc]

OutputColumns == {"position", "driver_number", "full_name", "team_name", "gap_to_leader"}

\* the merge raises KeyError when the roster frame has no driver_number
\* column (list_by_session returned the empty frame as it was)
merge_raises(left, right, on) == on \notin left.cols \/ on \notin right.cols

\* finishing_order from the merge to the returned frame.  On a frame without
\* rows df.apply(format_gap, axis=1) gives an empty column (pandas 2), so the
\* result is the five columns without rows.
classification(sorted, d) ==
    LET df == merge(sorted, d, "driver_number")
        gc == gap_col(df)
        with_gap == [cols |-> df.cols \cup {"gap_to_leader"},
                     rows |-> [i \in 1..Len(df.rows) |->
                                 ("gap_to_leader" :> format_gap(df.rows[i], gc)) @@ df.rows[i]]]
    IN  project(with_gap, OutputColumns)

\* ---------------------------------------------------------------- actions
\* pc: "show_results" before the call, "fetched" once the position feed is
\* in, then how show_results ended: "done" (something was printed) or
\* "raised" (the exception of finishing_order left show_results)
Init ==
    /\ pc = "show_results"
    /\ pos = NoFrame
    /\ drv = NoFrame
    /\ reduced = NoFrame
    /\ result = NoFrame
    /\ exc = "None"
    /\ printed = "None"

\* what show_results prints for the frame finishing_order returned
show(df) == IF empty(df) THEN "Nessun risultato disponibile" ELSE "table"

\* pos = self.client.fetch("position", ...): the request fails or answers
\* an empty list, or answers the records of a feed with one of the schemas
FetchPosition ==
    /\ pc = "show_results"
    /\ \/ pos' = NoFrame
       \/ \E S \in Schemas, n \in 1..MaxLen :
             \E rs \in [1..n -> PositionRecords(S)] :
                pos' = DataFrame(S \cup KeyColumns, rs)
    /\ pc' = "fetched"
    /\ UNCHANGED <<drv, reduced, result, exc, printed>>

\* the roster is fetched, pos.empty holds: finishing_order returns pos and
\* show_results prints
ReturnEmpty ==
    /\ pc = "fetched"
    /\ drv' \in Rosters
    /\ empty(pos)
    /\ result' = pos
    /\ printed' = show(pos)
    /\ pc' = "done"
    /\ UNCHANGED <<pos, reduced, exc>>

\* the roster is fetched and the feed has rows: reduce, sort, merge, format,
\* project; show_results prints the frame returned
Classify ==
    /\ pc = "fetched"
    /\ ~empty(pos)
    /\ \E d \in Rosters, r \in position_reducer(pos) :
         /\ ~merge_raises(r, d, "driver_number")
         /\ drv' = d
         /\ reduced' = r
         /\ \E s \in finishing_sort(r) :
              /\ result' = classification(s, d)
              /\ printed' = show(classification(s, d))
    /\ pc' = "done"
    /\ UNCHANGED <<pos, exc>>

\* the roster is fetched and the feed has rows, but the merge raises: the
\* KeyError leaves finishing_order and show_results, nothing is printed
MergeRaises ==
    /\ pc = "fetched"
    /\ ~empty(pos)
    /\ \E d \in Rosters, r \in position_reducer(pos) :
         /\ merge_raises(r, d, "driver_number")
         /\ drv' = d
         /\ reduced' = r
    /\ exc' = "KeyError"
    /\ pc' = "raised"
    /\ UNCHANGED <<pos, result, printed>>

Next == FetchPosition \/ ReturnEmpty \/ Classify \/ MergeRaises

Spec == Init /\ [][Next]_vars

\* ---------------------------------------------------------------- claims
\* show_results is over: finishing_order returned, or raised
Over == pc \in {"done", "raised"}

\* the events of the feed that pass the null filter
Valid == {i \in DOMAIN pos.rows : ~isna(pos.rows[i], "position")}

EventsOf(d) == {i \in Valid : pos.rows[i]["driver_number"] = d}

DriversIn == {pos.rows[i]["driver_number"] : i \in Valid}

\* the events of driver d with the greatest ordering key (the last one in
\* arrival order when the feed has no ordering column)
Latest(d) ==
    LET k == ordering_key(pos)
    IN  IF k = "None" THEN {i \in EventsOf(d) : \A j \in EventsOf(d) : j <= i}
        ELSE {i \in EventsOf(d) : \A j \in EventsOf(d) : pos.rows[j][k] <= pos.rows[i][k]}

SameCell(a, b, c) ==
    \/ isna(a, c) /\ isna(b, c)
    \/ ~isna(a, c) /\ ~isna(b, c) /\ a[c] = b[c]

RowsOf(df) == {df.rows[i] : i \in DOMAIN df.rows}

LeaderRows(df) == {r \in RowsOf(df) : ~isna(r, "position") /\ r["position"] = 1}

\* C1 (as claimed): the returned table has exactly one row per distinct
\* driver_number among the events with non-null position: as many rows as
\* such drivers, and no driver_number twice.
C1_OneRowPerDriver ==
    pc = "done" =>
        /\ Len(result.rows) = Cardinality(DriversIn)
        /\ \A i, j \in DOMAIN result.rows :
              i # j => result.rows[i]["driver_number"] # result.rows[j]["driver_number"]

\* C2 (as claimed): every reduced row is one single event of its driver, the
\* event with non-null position and the greatest ordering key; its position,
\* gap and interval all come from that event.  Stated for the drivers whose
\* greatest key belongs to one event only, so that the order of equal keys
\* (C10) plays no part.
C2_ReducedRowIsLatestEvent ==
    (Over /\ ~empty(pos)) =>
        \A r \in RowsOf(reduced) :
            Cardinality(Latest(r["driver_number"])) = 1 =>
                \E i \in Latest(r["driver_number"]) :
                    /\ SameCell(r, pos.rows[i], "position")
                    /\ SameCell(r, pos.rows[i], "gap")
                    /\ SameCell(r, pos.rows[i], "interval")

\* the roster has one record per driver_number
RosterKeyed ==
    \A i, j \in DOMAIN drv.rows :
        i # j => drv.rows[i]["driver_number"] # drv.rows[j]["driver_number"]

\* C3 (as claimed): a non-empty returned table has exactly one row with
\* position 1, and that row's gap_to_leader is "Leader".  Stated for the
\* rosters with one record per driver, so that the rows a repeated roster
\* record adds (C1) play no part.
C3_ExactlyOneLeader ==
    (pc = "done" /\ Len(result.rows) > 0 /\ RosterKeyed) =>
        /\ Cardinality({i \in DOMAIN result.rows : result.rows[i]["position"] = 1}) = 1
        /\ \A r \in LeaderRows(result) : r["gap_to_leader"] = "Leader"

\* C3 (amended): the rows with position 1 of a returned table are the rows
\* of exactly those drivers whose reduced position is 1 (there may be none,
\* or several), and each of them has gap_to_leader "Leader".
C3_LeaderRowsAreTheLeaders ==
    pc = "done" =>
        /\ {r["driver_number"] : r \in LeaderRows(result)}
             = {r["driver_number"] : r \in LeaderRows(reduced)}
        /\ \A r \in LeaderRows(result) : r["gap_to_leader"] = "Leader"

\* a table with rows and no leader among them, next to a leader without a
\* roster record in another call
C3_Witness ==
    /\ pc = "done"
    /\ \E r \in LeaderRows(result) : isna(r, "full_name") /\ r["gap_to_leader"] = "Leader"
    /\ \E r \in RowsOf(result) : r["position"] # 1

\* C4: every row of a returned table whose position is 1 has gap_to_leader
\* "Leader", whether the raw gap of that row is a value, null, or there is
\* no gap column; the raw value is not shown.
C4_LeaderLabel ==
    pc = "done" =>
        \A r \in RowsOf(result) :
            r["position"] = 1 =>
                /\ r["gap_to_leader"] = "Leader"
                /\ r["gap_to_leader"] \notin GapValues \cup IntervalValues

\* a leader row whose reduced row carries a raw gap value
C4_Witness ==
    /\ pc = "done"
    /\ \E r \in LeaderRows(reduced) :
         /\ ~isna(r, "gap")
         /\ \E q \in LeaderRows(result) : q["driver_number"] = r["driver_number"]

\* C5 (as claimed): with a gap column in the feed, a row with position other
\* than 1 shows "N/A" when the gap of its driver's latest event with non-null
\* position is null, and that event's raw gap otherwise; never the gap of an
\* earlier event.  Stated for the drivers whose greatest key belongs to one
\* event only (C10).
C5_GapOfLatestEvent ==
    (pc = "done" /\ gap_col(pos) # "None") =>
        \A r \in RowsOf(result) :
            (r["position"] # 1 /\ Cardinality(Latest(r["driver_number"])) = 1) =>
                \E i \in Latest(r["driver_number"]) :
                    IF isna(pos.rows[i], gap_col(pos))
                    THEN r["gap_to_leader"] = "N/A"
                    ELSE r["gap_to_leader"] = pos.rows[i][gap_col(pos)]

\* the drivers of the roster frame
RosterDrivers == {r["driver_number"] : r \in RowsOf(drv)}

\* C6 (as claimed): finishing_order does not raise on missing roster data: a
\* reduced driver without a roster record, the roster frame without rows and
\* columns included, still gets its row, with null full_name and team_name,
\* in a result of exactly the five output columns.
C6_UnmatchedDriverKeepsRow ==
    Over =>
        \A r \in RowsOf(reduced) :
            r["driver_number"] \notin RosterDrivers =>
                /\ pc = "done"
                /\ result.cols = OutputColumns
                /\ \E q \in RowsOf(result) :
                      /\ q["driver_number"] = r["driver_number"]
                      /\ q["position"] = r["position"]
                      /\ isna(q, "full_name")
                      /\ isna(q, "team_name")

\* C7 (as claimed): when the feed is empty or all its positions are null,
\* finishing_order returns an empty result without raising and show_results
\* prints that no results are available.
C7_NoDataIsEmptyResult ==
    (Over /\ Valid = {}) =>
        /\ pc = "done"
        /\ exc = "None"
        /\ empty(result)
        /\ printed = "Nessun risultato disponibile"

\* C8: the rows of a returned table are in ascending order of position, and
\* the join keeps the drivers in the order the sort by position gave them.
C8_AscendingPosition ==
    pc = "done" =>
        /\ \A i \in 1..(Len(result.rows) - 1) :
              result.rows[i]["position"] <= result.rows[i + 1]["position"]
        /\ \A i, j \in DOMAIN result.rows :
              (i < j /\ result.rows[i]["driver_number"] = result.rows[j]["driver_number"]) =>
                  \A k \in i..j :
                      result.rows[k]["driver_number"] = result.rows[i]["driver_number"]

\* two rows of different drivers, the higher driver_number finishing first
C8_Witness ==
    /\ pc = "done"
    /\ Len(result.rows) >= 2
    /\ result.rows[1]["position"] < result.rows[2]["position"]
    /\ result.rows[1]["driver_number"] > result.rows[2]["driver_number"]

\* C9: the reduction applied to its own output gives the same columns and
\* the same set of rows, whatever order equal keys are sorted in.
C9_ReducerIdempotent ==
    (Over /\ ~empty(pos)) =>
        \A again \in position_reducer(reduced) :
            /\ again.cols = reduced.cols
            /\ RowsOf(again) = RowsOf(reduced)

\* a feed with two events of one driver reduced to a single row
C9_Witness ==
    /\ Over
    /\ \E d \in DriversIn : Cardinality(EventsOf(d)) >= 2
    /\ Len(reduced.rows) >= 1
    /\ Len(reduced.rows) < Cardinality(Valid)

\* C10 (as claimed): when several events of a driver share the driver's
\* greatest ordering key, the reduction keeps the one that comes last in the
\* feed.
C10_TieKeepsLaterInFeed ==
    (Over /\ ~empty(pos) /\ ordering_key(pos) # "None") =>
        \A r \in RowsOf(reduced) :
            Cardinality(Latest(r["driver_number"])) >= 2 =>
                r["position"] = pos.rows[Max(Latest(r["driver_number"]))]["position"]

\* the feed has neither a gap nor an interval column
NoGapColumn == gap_col(pos) = "None"

\* every returned row with position other than 1 shows what the one column
\* chosen from the feed's columns (gap, else interval, else none) holds in the
\* reduced row of its driver: "N/A" without a column or with a null cell,
\* the cell otherwise; the interval is not looked at when gap exists
C11_GapColumnChosenOnce ==
    pc = "done" =>
        \A r \in RowsOf(result) :
            r["position"] # 1 =>
                \E q \in RowsOf(reduced) :
                    /\ q["driver_number"] = r["driver_number"]
                    /\ r["gap_to_leader"] =
                          IF "gap" \in pos.cols
                          THEN (IF isna(q, "gap") THEN "N/A" ELSE q["gap"])
                          ELSE IF "interval" \in pos.cols
                          THEN (IF isna(q, "interval") THEN "N/A" ELSE q["interval"])
                          ELSE "N/A"

\* a call on a feed without gap and interval column, with rows to classify,
\* does not fail
C11_NoGapColumnNoFailure ==
    (Over /\ NoGapColumn /\ ~empty(reduced)) => (pc = "done" /\ exc = "None")

\* C11 (as claimed): the gap column is chosen once from the feed's columns,
\* gap before interval; without either column every row with position
\* other than 1 shows "N/A" and the call does not fail; with both columns
\* a null gap shows "N/A" even when the interval has a value.
C11_GapColumnSelection ==
    /\ C11_GapColumnChosenOnce
    /\ C11_NoGapColumnNoFailure

====
